---- MODULE Spec2Model ----
(***************************************************************************)
(* A model of cmaptools (src/cmaptools/__init__.py): the DynamicColormap   *)
(* object (set_range / norm), the segment parser _parse_color_segments and *)
(* the line loop of readcpt.                                               *)
(*                                                                         *)
(* Three specifications share the variables:                               *)
(*   SpecDyn  - a DynamicColormap after construction, under set_range and  *)
(*              the norm property;                                         *)
(*   Spec     - one call of _parse_color_segments, statement by statement; *)
(*   SpecRead - one call of readcpt, line by line, up to the call of the   *)
(*              segment parser.                                            *)
(*                                                                         *)
(* Numbers are integers; a normalised position or colour component is an   *)
(* exact fraction <<n, d>> in lowest terms.  An optional value (Python     *)
(* None) is a sequence: <<>> is None and <<v>> is the number v.            *)
(***************************************************************************)
EXTENDS Integers, Sequences, FiniteSets

VARIABLES
    \* DynamicColormap
    self_vmin, self_hinge, self_vmax, \* the fields _vmin, _hinge, _vmax
    ctor,          \* ghost: the construction-time values
    supplied,      \* ghost: the last value a set_range call supplied, per field,
                   \* and whether the last call omitted a vmin supplied before
    normOut,       \* the outcome of the last read of the norm property
    \* _parse_color_segments
    pc,            \* position in the function
    segments,      \* argument: the segment lines, each split into fields
    table,         \* ghost: what the lines were written from
    hinge_arg,     \* argument hinge, drawn when line 251 first reads it
    hinge,         \* the local hinge from line 251 on
    i,             \* the loop index of the for loops
    fields, xi,    \* locals
    x, r, g, b,    \* locals
    norm, hinge_index, cmap_type, xNorm,
    red, green, blue,
    ret,           \* the returned colour model
    exc,           \* the exception that ended the call, "" if none
    \* readcpt
    rpc, cptfile, arg_hinge, override_hinge, lineno,
    rd,            \* the locals colormodel, hinge, segments and the exception
    call           \* the arguments handed to _parse_color_segments

dvars == <<self_vmin, self_hinge, self_vmax, ctor, supplied, normOut>>
pvars == <<pc, segments, table, hinge_arg, hinge, i, fields, xi, x, r, g, b, norm,
           hinge_index, cmap_type, xNorm, red, green, blue, ret, exc>>
rvars == <<rpc, cptfile, arg_hinge, override_hinge, lineno, rd, call>>
vars == <<dvars, pvars, rvars>>

-----------------------------------------------------------------------------
(* Bounds of the model.                                                    *)
MaxVal == 2
MaxPos == 3
MaxLines == 2
MaxFileLines == 3

None == <<>>
Some(v) == <<v>>
Vals == -1..MaxVal
OptVals == {None} \cup {Some(v) : v \in Vals}

-----------------------------------------------------------------------------
(* Exact fractions.                                                        *)
Abs(n) == IF n < 0 THEN -n ELSE n

RECURSIVE GCD(_, _)
GCD(m, n) == IF n = 0 THEN m ELSE GCD(n, m % n)

Frac(n, d) ==
    LET k == GCD(Abs(n), Abs(d))
        s == IF d < 0 THEN -1 ELSE 1
    IN  <<(s * n) \div k, (s * d) \div k>>

Zero == Frac(0, 1)
Half == Frac(1, 2)
One == Frac(1, 1)
\* a call that raised instead of returning a number
Raised == <<0, 0>>

-----------------------------------------------------------------------------
(* matplotlib.colors.DivergingNorm and Normalize, as the module uses them. *)

\* DivergingNorm(vmin=, vcenter=, vmax=): the constructor refuses a centre
\* that is not strictly between the two ends.
DivergingNorm(vmin, vcenter, vmax) ==
    IF vcenter >= vmax \/ vcenter <= vmin
    THEN [kind |-> "ValueError", vmin |-> vmin, vcenter |-> vcenter, vmax |-> vmax]
    ELSE [kind |-> "diverging", vmin |-> vmin, vcenter |-> vcenter, vmax |-> vmax]

Normalize(vmin, vmax) ==
    [kind |-> "linear", vmin |-> vmin, vcenter |-> vmin, vmax |-> vmax]

\* The proportional centre: what a bug that forgets the fixed 0.5 would give.
InterpProportional(n, v) ==
    IF v <= n.vmin THEN Zero
    ELSE IF v >= n.vmax THEN One
    ELSE Frac(v - n.vmin, n.vmax - n.vmin)

\* np.interp(v, [vmin, vcenter, vmax], [0, 0.5, 1.])
Interp(n, v) ==
    IF v <= n.vmin THEN Zero
    ELSE IF v >= n.vmax THEN One
    ELSE IF v <= n.vcenter
         THEN Frac(v - n.vmin, 2 * (n.vcenter - n.vmin))
         ELSE Frac((n.vmax - n.vcenter) + (v - n.vcenter), 2 * (n.vmax - n.vcenter))

\* norm(v): the normaliser applied to one value.
NormCall(n, v) ==
    CASE n.kind = "diverging" -> Interp(n, v)
      [] n.kind = "linear" ->
            IF n.vmin = n.vmax THEN Zero
            ELSE IF n.vmin > n.vmax THEN Raised
            ELSE Frac(v - n.vmin, n.vmax - n.vmin)
      [] OTHER -> Raised

-----------------------------------------------------------------------------
(* DynamicColormap                                                         *)

\* A bug that tests the argument's truth value: 0 counts as omitted.
SetFieldTruthy(arg, cur) ==
    IF arg # None /\ arg # Some(0) THEN arg[1] ELSE cur

\* One line of set_range: "arg if arg is not None else self.field".
SetField(arg, cur) ==
    IF arg # None THEN arg[1] ELSE cur

\* set_range(vmin, vmax, hinge) on the fields f = [vmin, hinge, vmax].
set_range(f, vmin, vmax, hng) ==
    [vmin |-> SetField(vmin, f.vmin),
     hinge |-> SetField(hng, f.hinge),
     vmax |-> SetField(vmax, f.vmax)]

\* The colour models a DynamicColormap is built from: with the attributes
\* values (from v0 to vN) and hinge, the hinge strictly inside as the
\* segment parser and joincmap leave it, or without them.
Cmaps ==
    {c \in [has_values : {TRUE}, v0 : Vals, vN : Vals, has_hinge : {TRUE}, hinge : Vals] :
        c.v0 < c.hinge /\ c.hinge < c.vN}
    \cup {[has_values |-> FALSE, v0 |-> 0, vN |-> 0, has_hinge |-> FALSE, hinge |-> 0]}

\* DynamicColormap.__init__: the three fields after construction.
DynamicColormapInit(cmap) ==
    LET v0 == IF cmap.has_values THEN cmap.v0 ELSE -1
        vN == IF cmap.has_values THEN cmap.vN ELSE 1
        h == IF cmap.has_hinge THEN cmap.hinge ELSE 0
        f0 == [vmin |-> v0, hinge |-> h, vmax |-> vN]
    IN  set_range(f0, Some(f0.vmin), Some(f0.vmax), Some(f0.hinge))

\* A norm that builds a plain min-max normaliser and never refuses.
NormPropertyLinear(vmin, hng, vmax) == Normalize(vmin, vmax)

\* The norm property.
NormProperty(vmin, hng, vmax) == DivergingNorm(vmin, hng, vmax)

NoNorm == [kind |-> "unread", vmin |-> 0, vcenter |-> 0, vmax |-> 0]

-----------------------------------------------------------------------------
(* Python sequences: 0-based indices, negative indices count from the end. *)
InRange(s, k) == k < Len(s) /\ k >= -Len(s)
Py(s, k) == IF k < 0 THEN s[Len(s) + k + 1] ELSE s[k + 1]

-----------------------------------------------------------------------------
(* Fields of a segment line: the strings re.split leaves.  A field is      *)
(* numeric (float() accepts it) or a word (float() raises ValueError).     *)
Num(v) == [num |-> TRUE, v |-> v, s |-> ""]
Word(s) == [num |-> FALSE, v |-> 0, s |-> s]

\* The named colour table of gmtcolors.py: name -> (r, g, b) in [0, 255].
GMT_COLOR_NAMES ==
    [black |-> <<0, 0, 0>>, white |-> <<255, 255, 255>>]

KnownName(f) == ~f.num /\ f.s \in DOMAIN GMT_COLOR_NAMES

\* The colours a well-formed line is written with, and what each means.
WellFormedColors ==
    {<<Num(255), Num(0), Num(0)>>, <<Num(0), Num(0), Num(255)>>, <<Word("white")>>}
ColorOf(c) ==
    IF Len(c) = 1 THEN GMT_COLOR_NAMES[c[1].s] ELSE <<c[1].v, c[2].v, c[3].v>>

\* Malformed tokens: a colour that is neither a triplet nor a known name,
\* a position that is not a number.
BadColors == {<<Word("bogus")>>, <<Num(5), Word("white")>>}
BadPositions == {<<Word("z")>>}

NoDefect == [line |-> 0, slot |-> "none", bad |-> <<>>]
Defects(n) ==
    {NoDefect}
    \cup [line : 1..n, slot : {"lpos", "rpos"}, bad : BadPositions]
    \cup [line : 1..n, slot : {"lcol", "rcol"}, bad : BadColors]

\* Strictly increasing positions z0 < z1 < ... of a table of n breakpoints.
IncSeqs(n) ==
    {s \in [1..n -> 0..MaxPos] : \A j \in 1..(n - 1) : s[j] < s[j + 1]}

\* A table of n lines: line k runs from pos[k] to pos[k+1], coloured
\* lcol[k] on the left and rcol[k] on the right; at most one token of the
\* table is replaced by a malformed one.
TablesOf(n) ==
    [n : {n}, pos : IncSeqs(n + 1), lcol : [1..n -> WellFormedColors],
     rcol : [1..n -> WellFormedColors], defect : Defects(n)]
Tables == UNION {TablesOf(n) : n \in 1..MaxLines}

\* The fields of line k of table t.
LineFields(t, k) ==
    LET slot(name, good) ==
            IF t.defect.line = k /\ t.defect.slot = name THEN t.defect.bad ELSE good
    IN  slot("lpos", <<Num(t.pos[k])>>) \o slot("lcol", t.lcol[k])
        \o slot("rpos", <<Num(t.pos[k + 1])>>) \o slot("rcol", t.rcol[k])

SegmentsOf(t) == [k \in 1..t.n |-> LineFields(t, k)]

-----------------------------------------------------------------------------
(* _parse_color_segments, lines 199-235: the parse.                        *)

\* The try/except of a colour: three floats at base, base+1, base+2, and on
\* ValueError the lookup of the field at nameAt.  The appends made before
\* the exception stay.  Result: the exception that leaves the block ("" if
\* none), the values appended to r, g and b, and whether the try succeeded.
TryColor(flds, base, nameAt) ==
    LET ok(k) == InRange(flds, k) /\ Py(flds, k).num
        val(k) == Py(flds, k).v
        got == IF ~ok(base) THEN <<>>
               ELSE IF ~ok(base + 1) THEN <<val(base)>>
               ELSE IF ~ok(base + 2) THEN <<val(base), val(base + 1)>>
               ELSE <<val(base), val(base + 1), val(base + 2)>>
        stop == base + Len(got)   \* the field the try stopped at
        part(j) == IF Len(got) >= j THEN <<got[j]>> ELSE <<>>
        key == Py(flds, nameAt)
    IN  IF Len(got) = 3
        THEN [exc |-> "", r |-> part(1), g |-> part(2), b |-> part(3), numeric |-> TRUE]
        ELSE IF ~InRange(flds, stop)
        THEN [exc |-> "IndexError", r |-> part(1), g |-> part(2), b |-> part(3),
              numeric |-> FALSE]
        ELSE IF ~KnownName(key)
        THEN [exc |-> "KeyError", r |-> part(1), g |-> part(2), b |-> part(3),
              numeric |-> FALSE]
        ELSE LET c == GMT_COLOR_NAMES[key.s]
             IN  [exc |-> "", r |-> part(1) \o <<c[1]>>, g |-> part(2) \o <<c[2]>>,
                  b |-> part(3) \o <<c[3]>>, numeric |-> FALSE]

\* A bug in the name branch of the loop: xi left at 4.
XiAfterLeftAlways4(numeric) == 4

\* xi after the left colour: 4 after a triplet, 2 after a name.
XiAfterLeft(numeric) == IF numeric THEN 4 ELSE 2

\* float(fields[k]) appended to x: the exception, or the value.
FloatField(flds, k) ==
    IF ~InRange(flds, k) THEN [exc |-> "IndexError", v |-> 0]
    ELSE IF ~Py(flds, k).num THEN [exc |-> "ValueError", v |-> 0]
    ELSE [exc |-> "", v |-> Py(flds, k).v]

\* np.abs(x - hinge).argmin(): the first index (0-based) of a least distance.
ArgMinAbs(xs, h) ==
    CHOOSE k \in 0..(Len(xs) - 1) :
        /\ \A j \in 0..(Len(xs) - 1) : Abs(Py(xs, k) - h) <= Abs(Py(xs, j) - h)
        /\ \A j \in 0..(k - 1) : Abs(Py(xs, j) - h) > Abs(Py(xs, k) - h)

\* A search that takes the first breakpoint at or above the hinge instead.
FirstAtOrAbove(xs, h) ==
    CHOOSE k \in 0..(Len(xs) - 1) :
        /\ Py(xs, k) >= h
        /\ \A j \in 0..(k - 1) : Py(xs, j) < h

\* Line 254: the hinge index.
HingeIndex(xs, h) == ArgMinAbs(xs, h)

\* The test of line 251 with the ends included.
IsDynamicInclusive(h, xs) ==
    h # None /\ Py(xs, 0) <= h[1] /\ h[1] <= Py(xs, -1)

\* Line 251: hinge is not None and x[0] < hinge < x[-1].
IsDynamic(h, xs) ==
    h # None /\ Py(xs, 0) < h[1] /\ h[1] < Py(xs, -1)

\* Lines 251-258: the mode, the normaliser, the hinge index and the hinge.
ChooseMode(h, xs) ==
    IF IsDynamic(h, xs)
    THEN [cmap_type |-> "dynamic",
          norm |-> DivergingNorm(Py(xs, 0), h[1], Py(xs, -1)),
          hinge_index |-> Some(HingeIndex(xs, h[1])),
          hinge |-> h]
    ELSE [cmap_type |-> "normal",
          norm |-> Normalize(Py(xs, 0), Py(xs, -1)),
          hinge_index |-> None,
          hinge |-> None]

\* Lines 264-276, one pass of the loop for one channel: the samples
\* appended for index k (0-based).
SamplesAt(k, hidx, xn, ch) ==
    (IF hidx # None /\ k = hidx[1]
     THEN <<<<Py(xn, k), Py(ch, k - 1), Py(ch, k)>>>>
     ELSE <<>>)
    \o <<<<Py(xn, k), Py(ch, k), Py(ch, k)>>>>

\* The hinge arguments a call is made with.
HingeArgs == {None} \cup {Some(v) : v \in -1..(MaxPos + 1)}
Unread == <<0, 0>>
NoRet == [kind |-> "none", hinge |-> None, range |-> <<>>]

-----------------------------------------------------------------------------
(* Spec: one call of _parse_color_segments(segments, name, hinge) with the *)
(* default colormodel 'RGB'.                                               *)

PIdle ==
    /\ pc = "idle" /\ segments = <<>> /\ table = NoDefect
    /\ hinge_arg = Unread /\ hinge = Unread /\ i = 0
    /\ fields = <<>> /\ xi = 0
    /\ x = <<>> /\ r = <<>> /\ g = <<>> /\ b = <<>>
    /\ norm = NoNorm /\ hinge_index = None /\ cmap_type = "" /\ xNorm = <<>>
    /\ red = <<>> /\ green = <<>> /\ blue = <<>>
    /\ ret = NoRet /\ exc = ""

DIdle ==
    /\ self_vmin = 0 /\ self_hinge = 0 /\ self_vmax = 0
    /\ ctor = [vmin |-> 0, hinge |-> 0, vmax |-> 0]
    /\ supplied = [vmin |-> None, hinge |-> None, vmax |-> None, kept |-> FALSE]
    /\ normOut = NoNorm

RIdle ==
    /\ rpc = "idle" /\ cptfile = <<>> /\ arg_hinge = None
    /\ override_hinge = FALSE /\ lineno = 0
    /\ rd = [colormodel |-> "RGB", hinge |-> None, segments |-> <<>>, exc |-> ""]
    /\ call = [made |-> FALSE, segments |-> <<>>, hinge |-> None, colormodel |-> ""]

Init ==
    /\ DIdle /\ RIdle
    /\ \E t \in Tables :
        /\ table = t
        /\ segments = SegmentsOf(t)
    /\ pc = "loop"
    /\ hinge_arg = Unread /\ hinge = Unread /\ i = 0
    /\ fields = <<>> /\ xi = 0
    /\ x = <<>> /\ r = <<>> /\ g = <<>> /\ b = <<>>
    /\ norm = NoNorm /\ hinge_index = None /\ cmap_type = "" /\ xNorm = <<>>
    /\ red = <<>> /\ green = <<>> /\ blue = <<>>
    /\ ret = NoRet /\ exc = ""

\* An exception leaves the function: nothing is returned.
Raise(e) ==
    /\ pc' = "raised" /\ exc' = e
    /\ UNCHANGED <<norm, hinge_index, cmap_type, xNorm, red, green, blue, ret,
                   hinge_arg, hinge, segments, table>>

\* Lines 203-217: one pass of the loop over the segments.
ParseSegment ==
    /\ pc = "loop" /\ i < Len(segments)
    /\ LET flds == segments[i + 1]
           pos == FloatField(flds, 0)
           col == TryColor(flds, 1, 1)
       IN  /\ fields' = flds
           /\ i' = i + 1
           /\ IF pos.exc # ""
              THEN /\ Raise(pos.exc)
                   /\ UNCHANGED <<x, r, g, b, xi>>
              ELSE /\ x' = Append(x, pos.v)
                   /\ r' = r \o col.r /\ g' = g \o col.g /\ b' = b \o col.b
                   /\ IF col.exc # ""
                      THEN Raise(col.exc) /\ UNCHANGED xi
                      ELSE /\ xi' = XiAfterLeft(col.numeric)
                           /\ UNCHANGED <<pc, exc, norm, hinge_index, cmap_type, xNorm,
                                          red, green, blue, ret, hinge_arg, hinge,
                                          segments, table>>
    /\ UNCHANGED <<dvars, rvars>>

\* Lines 220-230: the right side of the last segment.
ParseRight ==
    /\ pc = "loop" /\ i = Len(segments)
    /\ LET pos == FloatField(fields, xi)
           col == TryColor(fields, xi + 1, -1)
       IN  IF pos.exc # ""
           THEN Raise(pos.exc) /\ UNCHANGED <<x, r, g, b>>
           ELSE /\ x' = Append(x, pos.v)
                /\ r' = r \o col.r /\ g' = g \o col.g /\ b' = b \o col.b
                /\ IF col.exc # ""
                   THEN Raise(col.exc)
                   ELSE /\ pc' = "convert"
                        /\ UNCHANGED <<exc, norm, hinge_index, cmap_type, xNorm, red,
                                       green, blue, ret, hinge_arg, hinge, segments,
                                       table>>
    /\ UNCHANGED <<i, fields, xi, dvars, rvars>>

\* Lines 244-247: r /= 255., g /= 255., b /= 255.
ConvertColors ==
    /\ pc = "convert"
    /\ r' = [k \in DOMAIN r |-> Frac(r[k], 255)]
    /\ g' = [k \in DOMAIN g |-> Frac(g[k], 255)]
    /\ b' = [k \in DOMAIN b |-> Frac(b[k], 255)]
    /\ pc' = "mode"
    /\ UNCHANGED <<segments, table, hinge_arg, hinge, i, fields, xi, x, norm,
                   hinge_index, cmap_type, xNorm, red, green, blue, ret, exc>>
    /\ UNCHANGED <<dvars, rvars>>

\* Lines 251-260: the mode, and the normalised positions xNorm = norm(x).
ChooseNorm ==
    /\ pc = "mode"
    /\ \E h \in HingeArgs :
        LET m == ChooseMode(h, x)
        IN  /\ hinge_arg' = h
            /\ hinge' = m.hinge
            /\ cmap_type' = m.cmap_type
            /\ norm' = m.norm
            /\ hinge_index' = m.hinge_index
            /\ xNorm' = [k \in DOMAIN x |-> NormCall(m.norm, x[k])]
    /\ i' = 0
    /\ pc' = "samples"
    /\ UNCHANGED <<segments, table, fields, xi, x, r, g, b, red, green, blue, ret, exc>>
    /\ UNCHANGED <<dvars, rvars>>

\* Lines 264-276: one pass of the loop over the breakpoints.
BuildSample ==
    /\ pc = "samples" /\ i < Len(xNorm)
    /\ red' = red \o SamplesAt(i, hinge_index, xNorm, r)
    /\ green' = green \o SamplesAt(i, hinge_index, xNorm, g)
    /\ blue' = blue \o SamplesAt(i, hinge_index, xNorm, b)
    /\ i' = i + 1
    /\ UNCHANGED <<pc, segments, table, hinge_arg, hinge, fields, xi, x, r, g, b,
                   norm, hinge_index, cmap_type, xNorm, ret, exc>>
    /\ UNCHANGED <<dvars, rvars>>

\* Lines 279-289: the colour model returned; a dynamic one is wrapped in a
\* DynamicColormap, whose fields come from cmap.values and cmap.hinge.
Return ==
    /\ pc = "samples" /\ i = Len(xNorm)
    /\ ret' =
        IF cmap_type = "dynamic"
        THEN LET f == DynamicColormapInit(
                        [has_values |-> TRUE, v0 |-> Py(x, 0), vN |-> Py(x, -1),
                         has_hinge |-> TRUE, hinge |-> hinge[1]])
             IN  [kind |-> "DynamicColormap", hinge |-> Some(f.hinge),
                  range |-> <<f.vmin, f.vmax>>]
        ELSE [kind |-> "LinearSegmentedColormap", hinge |-> hinge, range |-> <<>>]
    /\ pc' = "done"
    /\ UNCHANGED <<segments, table, hinge_arg, hinge, i, fields, xi, x, r, g, b,
                   norm, hinge_index, cmap_type, xNorm, red, green, blue, exc>>
    /\ UNCHANGED <<dvars, rvars>>

Next == ParseSegment \/ ParseRight \/ ConvertColors \/ ChooseNorm \/ BuildSample \/ Return

Spec == Init /\ [][Next]_vars

-----------------------------------------------------------------------------
(* SpecDyn: a DynamicColormap, from its construction on.                   *)

InitDyn ==
    /\ PIdle /\ RIdle
    /\ \E cmap \in Cmaps :
        LET f == DynamicColormapInit(cmap)
        IN  /\ self_vmin = f.vmin /\ self_hinge = f.hinge /\ self_vmax = f.vmax
            /\ ctor = [vmin |-> IF cmap.has_values THEN cmap.v0 ELSE -1,
                       hinge |-> IF cmap.has_hinge THEN cmap.hinge ELSE 0,
                       vmax |-> IF cmap.has_values THEN cmap.vN ELSE 1]
    /\ supplied = [vmin |-> None, hinge |-> None, vmax |-> None, kept |-> FALSE]
    /\ normOut = NoNorm

\* set_range(vmin, vmax, hinge), each argument a number or omitted.
SetRange ==
    /\ \E a \in OptVals, c \in OptVals, h \in OptVals :
        LET f == set_range([vmin |-> self_vmin, hinge |-> self_hinge,
                            vmax |-> self_vmax], a, c, h)
            keep(arg, old) == IF arg # None THEN arg ELSE old
        IN  /\ self_vmin' = f.vmin /\ self_hinge' = f.hinge /\ self_vmax' = f.vmax
            /\ supplied' = [vmin |-> keep(a, supplied.vmin),
                            hinge |-> keep(h, supplied.hinge),
                            vmax |-> keep(c, supplied.vmax),
                            kept |-> (a = None /\ supplied.vmin # None)]
    /\ normOut' = NoNorm
    /\ UNCHANGED <<ctor, pvars, rvars>>

\* A read of the norm property.
ReadNorm ==
    /\ normOut = NoNorm
    /\ normOut' = NormProperty(self_vmin, self_hinge, self_vmax)
    /\ UNCHANGED <<self_vmin, self_hinge, self_vmax, ctor, supplied, pvars, rvars>>

NextDyn == SetRange \/ ReadNorm

SpecDyn == InitDyn /\ [][NextDyn]_vars

-----------------------------------------------------------------------------
(* readcpt, lines 313-346.  A line of the file, stripped, is the sequence  *)
(* of its tokens; "w in line" holds when w is one of them.                 *)

Contains(line, w) == \E k \in 1..Len(line) : line[k] = Word(w)
StartsWith(line, w) == Len(line) > 0 /\ line[1] = Word(w)

\* line.split("=")[-1]: the tokens after the last "=", the whole line if
\* there is none.
AfterLastEq(line) ==
    LET eqs == {k \in 1..Len(line) : line[k] = Word("=")}
        last == IF eqs = {} THEN 0 ELSE CHOOSE k \in eqs : \A j \in eqs : j <= k
    IN  SubSeq(line, last + 1, Len(line))

\* line.split("=")[1] instead of [-1]: the tokens after the first "=", up
\* to the next one.
AfterFirstEq(line) ==
    LET eqs == {k \in 1..Len(line) : line[k] = Word("=")}
        first == IF eqs = {} THEN 0 ELSE CHOOSE k \in eqs : \A j \in eqs : k <= j
        rest == {k \in eqs : k > first}
        stop == IF rest = {} THEN Len(line) + 1 ELSE CHOOSE k \in rest : \A j \in rest : k <= j
    IN  SubSeq(line, first + 1, stop - 1)

\* The text float() is given on a hinge line.
HingeText(line) == AfterLastEq(line)

\* The body of the loop without the skip of B, F and N lines.
LineStepNoBFN(st, line, ovr) ==
    IF line = <<>> THEN st
    ELSE IF Contains(line, "HSV") THEN [st EXCEPT !.colormodel = "HSV"]
    ELSE IF ~ovr /\ Contains(line, "HINGE")
    THEN LET t == HingeText(line)
         IN  IF Len(t) = 1 /\ t[1].num
             THEN [st EXCEPT !.hinge = Some(t[1].v)]
             ELSE [st EXCEPT !.exc = "ValueError"]
    ELSE IF StartsWith(line, "#") THEN st
    ELSE [st EXCEPT !.segments = Append(st.segments, line)]

\* Lines 319-344: the body of the loop over the lines of the file, on the
\* locals st = [colormodel, hinge, segments] and the exception raised.
LineStep(st, line, ovr) ==
    IF line = <<>> THEN st
    ELSE IF Contains(line, "HSV") THEN [st EXCEPT !.colormodel = "HSV"]
    ELSE IF ~ovr /\ Contains(line, "HINGE")
    THEN LET t == HingeText(line)
         IN  IF Len(t) = 1 /\ t[1].num
             THEN [st EXCEPT !.hinge = Some(t[1].v)]
             ELSE [st EXCEPT !.exc = "ValueError"]
    ELSE IF StartsWith(line, "#") THEN st
    ELSE IF StartsWith(line, "B") \/ StartsWith(line, "F") \/ StartsWith(line, "N")
    THEN st
    ELSE [st EXCEPT !.segments = Append(st.segments, line)]

\* The loop over a whole file; an exception ends it.
RECURSIVE ReadLines(_, _, _)
ReadLines(st, lines, ovr) ==
    IF lines = <<>> \/ st.exc # "" THEN st
    ELSE ReadLines(LineStep(st, Head(lines), ovr), Tail(lines), ovr)

\* Lines 313-318: the locals before the first line.
ReadStart(h) == [colormodel |-> "RGB", hinge |-> h, segments |-> <<>>, exc |-> ""]

\* The lines files are written with.
FileLines ==
    {<<>>,
     <<Word("#"), Word("comment")>>,
     <<Word("#"), Word("COLOR_MODEL"), Word("="), Word("HSV")>>,
     <<Word("#"), Word("HINGE"), Word("="), Num(1)>>,
     <<Word("#"), Word("HINGE"), Word("="), Num(2), Word("="), Num(3)>>,
     <<Word("#"), Word("HINGE")>>,
     <<Word("#"), Word("HSV"), Word("HINGE"), Word("="), Num(5)>>,
     <<Word("B"), Num(0), Num(0), Num(0)>>,
     <<Word("N"), Word("HSV")>>,
     <<Word("F"), Word("HINGE"), Word("="), Num(4)>>,
     <<Num(0), Word("black"), Num(1), Word("white")>>}

Files == UNION {[1..n -> FileLines] : n \in 0..MaxFileLines}

-----------------------------------------------------------------------------
(* SpecRead: one call of readcpt(cptfile, hinge=, override_hinge=).        *)

InitRead ==
    /\ PIdle /\ DIdle
    /\ cptfile \in Files
    /\ arg_hinge \in {None, Some(0)}
    /\ override_hinge \in BOOLEAN
    /\ rpc = "lines" /\ lineno = 0
    /\ rd = ReadStart(arg_hinge)
    /\ call = [made |-> FALSE, segments |-> <<>>, hinge |-> None, colormodel |-> ""]

\* One pass of the loop over the lines.
ReadLine ==
    /\ rpc = "lines" /\ lineno < Len(cptfile)
    /\ rd' = LineStep(rd, cptfile[lineno + 1], override_hinge)
    /\ lineno' = lineno + 1
    /\ rpc' = IF rd'.exc # "" THEN "raised" ELSE "lines"
    /\ UNCHANGED <<cptfile, arg_hinge, override_hinge, call, pvars, dvars>>

\* Line 346: the call of the segment parser.
CallParser ==
    /\ rpc = "lines" /\ lineno = Len(cptfile)
    /\ call' = [made |-> TRUE, segments |-> rd.segments, hinge |-> rd.hinge,
                colormodel |-> rd.colormodel]
    /\ rpc' = "done"
    /\ UNCHANGED <<cptfile, arg_hinge, override_hinge, lineno, rd, pvars, dvars>>

NextRead == ReadLine \/ CallParser

SpecRead == InitRead /\ [][NextRead]_vars

-----------------------------------------------------------------------------
(* The claims.                                                             *)

\* C1: after any sequence of set_range calls, each of vmin, hinge and vmax
\* is the value most recently supplied for it, or its construction-time
\* value if no call ever supplied it; an omitted argument neither changes
\* the field nor resets it.
C1_FieldsAreLastSupplied ==
    LET now(arg, built) == IF arg = None THEN built ELSE arg[1]
    IN  /\ self_vmin = now(supplied.vmin, ctor.vmin)
        /\ self_hinge = now(supplied.hinge, ctor.hinge)
        /\ self_vmax = now(supplied.vmax, ctor.vmax)

\* The last call omitted vmin, which an earlier call had set to 0, a value
\* other than the construction-time one.
C1_Witness ==
    /\ supplied.kept
    /\ supplied.vmin = Some(0) /\ ctor.vmin # 0
    /\ supplied.hinge = None

\* C7 as stated: whatever (vmin, hinge, vmax) set_range left, reading norm
\* does not fail and the normaliser maps vmin to 0 and vmax to 1.
C7_NormNeverFails ==
    normOut.kind # "unread" =>
        /\ normOut.kind # "ValueError"
        /\ NormCall(normOut, self_vmin) = Zero
        /\ NormCall(normOut, self_vmax) = One

\* C7 amended: reading norm succeeds exactly when vmin < hinge < vmax, and
\* then maps vmin to 0 and vmax to 1; in every other state it raises
\* ValueError.
C7_NormWhenOrdered ==
    normOut.kind # "unread" =>
        IF self_vmin < self_hinge /\ self_hinge < self_vmax
        THEN /\ normOut.kind = "diverging"
             /\ NormCall(normOut, self_vmin) = Zero
             /\ NormCall(normOut, self_vmax) = One
        ELSE normOut.kind = "ValueError"

\* norm was read after set_range moved vmin, with the three in order.
C7_Witness ==
    /\ normOut.kind = "diverging"
    /\ supplied.vmin # None /\ self_vmin # ctor.vmin

\* C2: the parser returns a DynamicColormap with the given hinge if and
\* only if the hinge is given and positions[0] < hinge < positions[-1];
\* otherwise a plain colour model whose hinge is None.
C2_DynamicIffHingeInside ==
    pc = "done" =>
        LET inside == /\ hinge_arg # None
                      /\ x[1] < hinge_arg[1]
                      /\ hinge_arg[1] < x[Len(x)]
        IN  /\ (ret.kind = "DynamicColormap") <=> inside
            /\ inside => ret.hinge = hinge_arg
            /\ ~inside => ret.kind = "LinearSegmentedColormap" /\ ret.hinge = None

\* A call returned with the hinge equal to the last position.
C2_Witness ==
    /\ pc = "done" /\ hinge_arg = Some(x[Len(x)])
    /\ ret.kind = "LinearSegmentedColormap"

\* C5: n well-formed lines give n+1 positions and n+1 colours: position and
\* colour k are the left boundary and left colour of line k, the last ones
\* the right boundary and right colour of the final line.
C5_PositionsAndColors ==
    table.defect = NoDefect =>
        /\ pc # "raised"
        /\ pc = "convert" =>
            /\ Len(x) = table.n + 1
            /\ Len(r) = table.n + 1 /\ Len(g) = table.n + 1 /\ Len(b) = table.n + 1
            /\ \A k \in 1..table.n :
                /\ x[k] = table.pos[k]
                /\ <<r[k], g[k], b[k]>> = ColorOf(table.lcol[k])
            /\ x[table.n + 1] = table.pos[table.n + 1]
            /\ <<r[table.n + 1], g[table.n + 1], b[table.n + 1]>>
                 = ColorOf(table.rcol[table.n])

\* Two lines were parsed, the last with a named left colour and a numeric
\* right colour, the first the other way round.
C5_Witness ==
    /\ pc = "convert" /\ table.defect = NoDefect /\ table.n = 2
    /\ Len(table.lcol[2]) = 1 /\ Len(table.rcol[2]) = 3
    /\ Len(table.lcol[1]) = 3 /\ Len(table.rcol[1]) = 1

\* C8 as stated: a table with a malformed token, on whichever line, never
\* yields a colour model.
C8_BadTokenNeverReturns ==
    table.defect # NoDefect => ret.kind = "none"

\* C6 as stated: in dynamic mode the normaliser maps positions[0] to 0,
\* positions[-1] to 1 and the hinge to
\* (hinge - positions[0]) / (positions[-1] - positions[0]).
C6_HingeProportional ==
    cmap_type = "dynamic" =>
        /\ NormCall(norm, x[1]) = Zero
        /\ NormCall(norm, x[Len(x)]) = One
        /\ NormCall(norm, hinge[1]) = Frac(hinge[1] - x[1], x[Len(x)] - x[1])

\* C6 amended: in dynamic mode the normaliser maps positions[0] to 0,
\* positions[-1] to 1 and the hinge to 0.5, wherever the hinge lies
\* between the two ends.
C6_HingeAtHalf ==
    cmap_type = "dynamic" =>
        /\ NormCall(norm, x[1]) = Zero /\ xNorm[1] = Zero
        /\ NormCall(norm, x[Len(x)]) = One /\ xNorm[Len(x)] = One
        /\ NormCall(norm, hinge[1]) = Half

\* A dynamic table whose hinge is not midway between the two ends.
C6_Witness ==
    /\ cmap_type = "dynamic"
    /\ 2 * hinge[1] # x[1] + x[Len(x)]

\* C9 as stated: in dynamic mode each channel has one sample more than
\* there are breakpoints; the extra one comes right before the regular
\* sample of the hinge index, at the same position, and its below-value is
\* the channel value of the breakpoint before the hinge index.
C9_BelowValueIsPreceding ==
    (pc = "done" /\ cmap_type = "dynamic") =>
        LET h == hinge_index[1] + 1   \* 1-based
            extra(samples, ch) ==
                /\ Len(samples) = Len(x) + 1
                /\ samples[h][1] = samples[h + 1][1]
                /\ samples[h + 1] = <<xNorm[h], ch[h], ch[h]>>
                /\ h - 1 \in 1..Len(x)
                /\ samples[h][2] = ch[h - 1]
        IN  extra(red, r) /\ extra(green, g) /\ extra(blue, b)

\* C10 as stated: the two stacked samples sit at the hinge's own
\* normalised position, also when the hinge is no breakpoint.
C10_PairAtHingePosition ==
    (pc = "done" /\ cmap_type = "dynamic") =>
        LET h == hinge_index[1] + 1
        IN  /\ red[h][1] = NormCall(norm, hinge[1])
            /\ red[h + 1][1] = NormCall(norm, hinge[1])

\* C10 amended: the two stacked samples sit at the normalised position of a
\* breakpoint nearest to the hinge; that is the hinge's own normalised
\* position exactly when the hinge is one of the breakpoints.
C10_PairAtNearestBreakpoint ==
    (pc = "done" /\ cmap_type = "dynamic") =>
        \E k \in 1..Len(x) :
            /\ \A j \in 1..Len(x) : Abs(x[k] - hinge_arg[1]) <= Abs(x[j] - hinge_arg[1])
            /\ \A samples \in {red, green, blue} :
                /\ Len(samples) = Len(x) + 1
                /\ \A j \in 1..Len(x) :
                    samples[IF j < k THEN j ELSE j + 1][1] = NormCall(norm, x[j])
                /\ samples[k][1] = NormCall(norm, x[k])
            /\ (red[k][1] = NormCall(norm, hinge_arg[1]))
                <=> (\E j \in 1..Len(x) : x[j] = hinge_arg[1])

\* A dynamic table was built whose hinge is none of the breakpoints.
C10_Witness ==
    /\ pc = "done" /\ cmap_type = "dynamic"
    /\ \A j \in 1..Len(x) : x[j] # hinge_arg[1]

\* C3: the hinge handed to the segment parser is the caller's whenever
\* override_hinge is True; otherwise the number after the last "=" of the
\* last line processed as a hinge line, or the caller's if there is none.
C3_HingeHandedOver ==
    rpc = "done" =>
        LET hingeLines == {k \in 1..Len(cptfile) :
                              /\ cptfile[k] # <<>>
                              /\ ~Contains(cptfile[k], "HSV")
                              /\ Contains(cptfile[k], "HINGE")}
        IN  /\ call.made
            /\ IF override_hinge \/ hingeLines = {}
               THEN call.hinge = arg_hinge
               ELSE LET m == CHOOSE k \in hingeLines : \A j \in hingeLines : j <= k
                        line == cptfile[m]
                    IN  /\ Len(line) >= 2
                        /\ line[Len(line) - 1] = Word("=")
                        /\ call.hinge = Some(line[Len(line)].v)

\* A file with two hinge lines, the last one with two "=", was read
\* without override.
C3_Witness ==
    /\ rpc = "done" /\ ~override_hinge
    /\ \E j, k \in 1..Len(cptfile) :
        /\ j < k
        /\ cptfile[j] = <<Word("#"), Word("HINGE"), Word("="), Num(1)>>
        /\ Len(cptfile[k]) = 6 /\ Contains(cptfile[k], "HINGE")

\* The file without its line k.
WithoutLine(file, k) == SubSeq(file, 1, k - 1) \o SubSeq(file, k + 1, Len(file))
BeginsBFN(line) ==
    StartsWith(line, "B") \/ StartsWith(line, "F") \/ StartsWith(line, "N")

\* C4 as stated: a line beginning with B, F or N is skipped whatever else
\* it contains: removing it from the file changes nothing of what the call
\* ends with.
C4_BFNLineSkipped ==
    rpc \in {"done", "raised"} =>
        \A k \in 1..Len(cptfile) :
            BeginsBFN(cptfile[k]) =>
                ReadLines(ReadStart(arg_hinge), WithoutLine(cptfile, k), override_hinge) = rd

\* C4 amended: a line beginning with B, F or N never becomes a segment; it
\* is skipped, and removing it changes nothing, provided it contains no
\* "HSV" and, unless override_hinge is True, no "HINGE".
C4_PlainBFNLineSkipped ==
    rpc \in {"done", "raised"} =>
        /\ \A k \in 1..Len(rd.segments) : ~BeginsBFN(rd.segments[k])
        /\ \A k \in 1..Len(cptfile) :
            (/\ BeginsBFN(cptfile[k])
             /\ ~Contains(cptfile[k], "HSV")
             /\ (override_hinge \/ ~Contains(cptfile[k], "HINGE")))
            => ReadLines(ReadStart(arg_hinge), WithoutLine(cptfile, k), override_hinge) = rd

\* A file was read through in which a B line precedes a segment line.
C4_Witness ==
    /\ rpc = "done" /\ Len(rd.segments) > 0
    /\ \E j, k \in 1..Len(cptfile) :
        /\ j < k
        /\ cptfile[j] = <<Word("B"), Num(0), Num(0), Num(0)>>
        /\ cptfile[k] = <<Num(0), Word("black"), Num(1), Word("white")>>

====
